---- MODULE Spec2Model ----
(***************************************************************************)
(* notion-astro-loader: the sync pass of notionLoader.load (part_002),     *)
(* the render task of one page (render.ts) and the asset cache             *)
(* downloadFile (asset.ts), as one state machine.                          *)
(*                                                                         *)
(* Spec      the sync controller: passes of load over a remote database    *)
(*           and the content store, with the render tasks it schedules.    *)
(* AssetSpec the asset cache: concurrent calls of downloadFile over one    *)
(*           destination directory, with the file writes they start.       *)
(* FetchSpec #fetchAsset: the asset references of the renderers resolved   *)
(*           through downloadFile, with the renderers' path lists and      *)
(*           counters.                                                     *)
(* ProcSpec  process: the render tasks that share the processor of         *)
(*           buildProcessor and its `headings` variable.                   *)
(* TreeSpec  fetchBlocks: the recursive fetch of the block tree of a page, *)
(*           consumed by awaitAll.                                         *)
(***************************************************************************)
EXTENDS Integers, Sequences, FiniteSets, TLC

\* ------------------------------------------------------------------ bounds
\* Page identifiers, fingerprints (last_edited_time) and content versions.
Ids == {"A", "B"}
Contents == {"c1", "c2"}
NumFps == 2
FpNames == <<"t1", "t2", "t3", "t4">>
Fps == {FpNames[i] : i \in 1..NumFps}

\* Concurrent resolutions of the asset cache, and the query strings (the
\* expiring signatures) a URL may carry.
Procs == {"r1", "r2"}
NumQueries == 2
QueryNames == <<"sig1", "sig2", "sig3", "sig4">>
Queries == {QueryNames[i] : i \in 1..NumQueries}

\* The pathnames of the asset URLs, as split('/') gives them: three
\* segments, four segments, two segments, and a second object.
UrlPaths ==
  { <<"", "p", "o1", "a.png">>,
    <<"", "w", "p", "o1", "a.png">>,
    <<"", "o1", "a.png">>,
    <<"", "p", "o2", "b.png">> }

\* ------------------------------------------------------------- data model
\* JavaScript's undefined, for a field that holds no value.
Undefined == "-"

\* store.get(id) of an identifier the store does not hold; an entry that is
\* held carries the digest and the rendering part_002 wrote.
NoEntry == [digest |-> Undefined, rendered |-> Undefined]

\* A record of the remote database as databases.query yields it: a full page
\* (isFullPage) with its last_edited_time and content, or a partial record.
AbsentPage == [kind |-> "absent", last_edited_time |-> Undefined, content |-> Undefined]
PartialPage == [kind |-> "partial", last_edited_time |-> Undefined, content |-> Undefined]
FullPages == [kind : {"full"}, last_edited_time : Fps, content : Contents]
RemoteRecords == {AbsentPage, PartialPage} \cup FullPages

\* The result of NotionPageRenderer.render: {} after a failure.
EmptyResult == [data |-> Undefined, rendered |-> Undefined]

\* A render task (one entry of `renderers`): the page its closure captured,
\* the result render resolved with, and where the promise stands.
NoTask == [st |-> "none", page |-> AbsentPage, result |-> EmptyResult]

VARIABLES
  force,          \* process.env.FORCE_RERENDER is set
  remote,         \* the remote database: id -> record
  store,          \* the content store: id -> entry or NoEntry
  pc,             \* where load stands: idle, enum, join, returned, failedEnum, failedJoin
  cachedPageIds,  \* load's local set, part_002:100
  seen,           \* identifiers the enumeration has yielded in this pass
  task,           \* id -> render task of this pass
  startStore,     \* the store when this pass started
  deleted,        \* identifiers store.delete was called for in this pass
  remoteDirty,    \* the remote database changed since the last pass started
  secondRun,      \* this pass follows a pass that returned normally, remote unchanged
  prevStored,     \* ... and every render task of that pass wrote its entry
  rootExists,     \* the destination root directory (assetPath) exists
  dirs,           \* the per-object subdirectories that exist under it
  files,          \* local file path -> absent, partial or complete
  call,           \* resolution -> its call of downloadFile
  fa,             \* resolution -> its call of #fetchAsset
  assetPaths,     \* renderer (page) -> #assetPaths, render.ts:107
  assetAnalytics, \* renderer (page) -> #assetAnalytics, render.ts:108
  doc,            \* page -> its call of process: position, TOC, returned headings
  headings,       \* the variable `headings` of buildProcessor, render.ts:34
  rehypePlugins,  \* the option rehypePlugins of the loader, part_002:66
  isFull,         \* block -> isFullBlock of the record the remote lists for it
  stack,          \* the nested calls of fetchBlocks, innermost last
  kids,           \* block -> the children attached to it, render.ts:256
  attached,       \* the blocks whose children have been attached
  yieldLog,       \* the blocks fetchBlocks has yielded, in the order of the yields
  listed,         \* the blocks whose children list was requested
  yielded,        \* block -> the record fetchBlocks yielded for it
  tpc,            \* where the outermost awaitAll(fetchBlocks) stands
  blocks,         \* what the outermost awaitAll(fetchBlocks) returned, render.ts:139
  rPage,          \* the page of one renderer: cover, icon, properties, block assets
  rStage,         \* where render stands: idle, cover, icon, props, files, blocks, asset, process, rendered, failed
  rProp,          \* the property the loop of #getPageData stands at, render.ts:189
  rBlock,         \* the block the fetch of the tree stands at
  rPending,       \* the calls of #fetchAsset that have not returned
  rReturned,      \* the calls of #fetchAsset that returned, in the order of the returns
  rSaved,         \* the calls of #fetchAsset that pushed a path
  rPaths,         \* #assetPaths of the renderer, render.ts:107
  rPassed,        \* the asset path list process was called with, render.ts:152
  tree,           \* the nodes of the document tree, in the order visit comes to them
  treeIn,         \* the tree the transform of rehypeAssets was called with
  visitAt,        \* the node visit comes to next
  assetOccurrenceMap, \* rehype-assets.ts:18
  hintPaths,      \* the option assetPaths of rehypeAssets, rehype-assets.ts:16
  hpc             \* where the transform stands: visiting, done, threw

syncVars == <<force, remote, store, pc, cachedPageIds, seen, task, startStore,
              deleted, remoteDirty, secondRun, prevStored>>
assetVars == <<rootExists, dirs, files, call>>
fetchVars == <<fa, assetPaths, assetAnalytics>>
procVars == <<doc, headings, rehypePlugins>>
treeVars == <<isFull, stack, kids, attached, yieldLog, listed, yielded, tpc, blocks>>
renderVars == <<rPage, rStage, rProp, rBlock, rPending, rReturned, rSaved, rPaths, rPassed>>
rehypeVars == <<tree, treeIn, visitAt, assetOccurrenceMap, hintPaths, hpc>>
vars == <<force, remote, store, pc, cachedPageIds, seen, task, startStore,
          deleted, remoteDirty, secondRun, prevStored,
          rootExists, dirs, files, call,
          fa, assetPaths, assetAnalytics,
          doc, headings, rehypePlugins,
          isFull, stack, kids, attached, yieldLog, listed, yielded, tpc, blocks,
          rPage, rStage, rProp, rBlock, rPending, rReturned, rSaved, rPaths, rPassed,
          tree, treeIn, visitAt, assetOccurrenceMap, hintPaths, hpc>>

\* What the actions of one component leave alone.
offSync == <<assetVars, fetchVars, procVars, treeVars, renderVars, rehypeVars>>
offAsset == <<syncVars, fetchVars, procVars, treeVars, renderVars, rehypeVars>>
offFetch == <<syncVars, procVars, treeVars, renderVars, rehypeVars>>
offProc == <<syncVars, assetVars, fetchVars, treeVars, renderVars, rehypeVars>>
offTree == <<syncVars, assetVars, fetchVars, procVars, renderVars, rehypeVars>>
offRender == <<syncVars, assetVars, fetchVars, procVars, treeVars, rehypeVars>>
offRehype == <<syncVars, assetVars, fetchVars, procVars, treeVars, renderVars>>

\* ------------------------------------------------------------ the store
\* store.keys()
StoreKeys(s) == {id \in Ids : s[id] # NoEntry}

\* store.set(entry)
StoreSet(s, id, entry) == [s EXCEPT ![id] = entry]

\* store.delete(id) for every id of a set (the loop of part_002:159-164)
StoreDeleteAll(s, ids) == [id \in Ids |-> IF id \in ids THEN NoEntry ELSE s[id]]

\* ------------------------------------------------------- load's decisions
\* Variants of the comparison: rendering on a content difference, and
\* leaving the override out.
MutRenderOnContent(cachedPage, page, forceFlag) ==
  \/ cachedPage.digest # page.last_edited_time
  \/ cachedPage.rendered # page.content
  \/ forceFlag

MutIgnoreForce(cachedPage, page, forceFlag) ==
  cachedPage.digest # page.last_edited_time

\* part_002:133: cachedPage?.digest !== page.last_edited_time || FORCE_RERENDER
NeedsRender(cachedPage, page, forceFlag) ==
  cachedPage.digest # page.last_edited_time \/ forceFlag

\* A deletion loop that removes nothing.
MutNoDelete(cached) == {}

\* part_002:159: the identifiers the deletion loop runs over
PagesToDelete(cached) == cached

\* A then-callback without the guard on an empty result.
MutNeverEmpty(result) == FALSE

\* part_002:138: the then-callback returns without writing
IsEmptyResult(result) == result.data = Undefined \/ result.rendered = Undefined

\* An entry written without the page's fingerprint.
MutEntryNoDigest(page, result) ==
  [digest |-> Undefined, rendered |-> result.rendered]

\* part_002:140-147: the entry store.set is given
EntryFor(page, result) ==
  [digest |-> page.last_edited_time, rendered |-> result.rendered]

\* render.ts:155-165: what render resolves with when no stage raised
RenderResult(page) == [data |-> page.kind, rendered |-> page.content]

Unsettled == {"rendering", "parsing"}
Fulfilled == {"stored", "empty"}
Renderers == {id \in Ids : task[id].st # "none"}
Quiescent == \A id \in Ids : task[id].st \notin Unsettled
AtRest == pc \in {"idle", "returned", "failedEnum", "failedJoin"}

\* ------------------------------------------------------------------ Init
SyncInit ==
  /\ force \in BOOLEAN
  /\ remote = [id \in Ids |-> AbsentPage]
  /\ store = [id \in Ids |-> NoEntry]
  /\ pc = "idle"
  /\ cachedPageIds = {}
  /\ seen = {}
  /\ task = [id \in Ids |-> NoTask]
  /\ startStore = [id \in Ids |-> NoEntry]
  /\ deleted = {}
  /\ remoteDirty = FALSE
  /\ secondRun = FALSE
  /\ prevStored = FALSE

\* --------------------------------------------------------------- actions
\* The remote database is edited between passes: a page is created, edited
\* (fingerprint, content or both), made inaccessible, or removed. The locals
\* of the pass that has returned are gone by then.
RemoteChange(id, rec) ==
  /\ AtRest /\ Quiescent
  /\ rec # remote[id]
  /\ remote' = [remote EXCEPT ![id] = rec]
  /\ remoteDirty' = TRUE
  /\ pc' = "idle"
  /\ cachedPageIds' = {}
  /\ seen' = {}
  /\ task' = [i \in Ids |-> NoTask]
  /\ startStore' = [i \in Ids |-> NoEntry]
  /\ deleted' = {}
  /\ secondRun' = FALSE
  /\ prevStored' = FALSE
  /\ UNCHANGED <<force, store>>
  /\ UNCHANGED offSync

\* load is called: part_002:99-115. The content layer runs one pass at a
\* time, and this model starts the next one once the render tasks that a
\* failed pass left running have settled.
LoadStart ==
  /\ AtRest /\ Quiescent
  /\ cachedPageIds' = StoreKeys(store)
  /\ seen' = {}
  /\ task' = [id \in Ids |-> NoTask]
  /\ startStore' = store
  /\ deleted' = {}
  /\ pc' = "enum"
  /\ remoteDirty' = FALSE
  /\ secondRun' = (pc = "returned" /\ ~remoteDirty)
  /\ prevStored' = (pc = "returned" /\ ~remoteDirty
                    /\ \A id \in Ids : task[id].st \in {"none", "stored"})
  /\ UNCHANGED <<force, remote, store>>
  /\ UNCHANGED offSync

\* One iteration of the for-await loop, part_002:117-156.
EnumStep(id) ==
  /\ pc = "enum"
  /\ id \notin seen
  /\ remote[id].kind # "absent"
  /\ seen' = seen \cup {id}
  /\ IF remote[id].kind # "full"
       THEN UNCHANGED <<cachedPageIds, task>>
       ELSE /\ cachedPageIds' = cachedPageIds \ {id}
            /\ IF NeedsRender(store[id], remote[id], force)
                 THEN task' = [task EXCEPT ![id] =
                        [st |-> "rendering", page |-> remote[id], result |-> EmptyResult]]
                 ELSE UNCHANGED task
  /\ UNCHANGED <<force, remote, store, pc, startStore, deleted, remoteDirty,
                 secondRun, prevStored>>
  /\ UNCHANGED offSync

\* A throw that runs the deletion loop on its way out.
MutDeleteOnThrow(cached) == cached

\* part_002:117-164: a throw of the for-await loop leaves load, and the
\* deletion loop behind it runs over no identifier
DeletedAfterThrow(cached) == {}

\* The paginated enumeration raises: the for-await loop throws out of load.
EnumFail ==
  /\ pc = "enum"
  /\ pc' = "failedEnum"
  /\ store' = StoreDeleteAll(store, DeletedAfterThrow(cachedPageIds))
  /\ deleted' = DeletedAfterThrow(cachedPageIds)
  /\ UNCHANGED <<force, remote, cachedPageIds, seen, task, startStore,
                 remoteDirty, secondRun, prevStored>>
  /\ UNCHANGED offSync

\* The enumeration ends: the deletion loop, then the early return or the
\* await of Promise.all, part_002:158-173.
EnumDone ==
  /\ pc = "enum"
  /\ seen = {id \in Ids : remote[id].kind # "absent"}
  /\ store' = StoreDeleteAll(store, PagesToDelete(cachedPageIds))
  /\ deleted' = PagesToDelete(cachedPageIds)
  /\ pc' = IF Renderers = {} THEN "returned" ELSE "join"
  /\ UNCHANGED <<force, remote, cachedPageIds, seen, task, startStore,
                 remoteDirty, secondRun, prevStored>>
  /\ UNCHANGED offSync

\* renderer.render settles (render.ts:130-171: every failure is caught and
\* gives {}), and the then-callback of part_002:137-138 starts.
RenderSettle(id, ok) ==
  /\ task[id].st = "rendering"
  /\ LET result == IF ok THEN RenderResult(task[id].page) ELSE EmptyResult
     IN task' = [task EXCEPT ![id].result = result,
                             ![id].st = IF IsEmptyResult(result) THEN "empty" ELSE "parsing"]
  /\ UNCHANGED <<force, remote, store, pc, cachedPageIds, seen, startStore,
                 deleted, remoteDirty, secondRun, prevStored>>
  /\ UNCHANGED offSync

\* parseData resolves and store.set runs, part_002:140-147.
ParseOk(id) ==
  /\ task[id].st = "parsing"
  /\ store' = StoreSet(store, id, EntryFor(task[id].page, task[id].result))
  /\ task' = [task EXCEPT ![id].st = "stored"]
  /\ UNCHANGED <<force, remote, pc, cachedPageIds, seen, startStore, deleted,
                 remoteDirty, secondRun, prevStored>>
  /\ UNCHANGED offSync

\* parseData rejects (the property data fails validation): the render
\* promise rejects, part_002:143.
ParseFail(id) ==
  /\ task[id].st = "parsing"
  /\ task' = [task EXCEPT ![id].st = "rejected"]
  /\ UNCHANGED <<force, remote, store, pc, cachedPageIds, seen, startStore,
                 deleted, remoteDirty, secondRun, prevStored>>
  /\ UNCHANGED offSync

\* Promise.all(renderers) fulfils: every promise fulfilled, part_002:173-175.
JoinResolve ==
  /\ pc = "join"
  /\ \A id \in Renderers : task[id].st \in Fulfilled
  /\ pc' = "returned"
  /\ UNCHANGED <<force, remote, store, cachedPageIds, seen, task, startStore,
                 deleted, remoteDirty, secondRun, prevStored>>
  /\ UNCHANGED offSync

\* Promise.all(renderers) rejects with the first rejection, part_002:173.
JoinReject ==
  /\ pc = "join"
  /\ \E id \in Renderers : task[id].st = "rejected"
  /\ pc' = "failedJoin"
  /\ UNCHANGED <<force, remote, store, cachedPageIds, seen, task, startStore,
                 deleted, remoteDirty, secondRun, prevStored>>
  /\ UNCHANGED offSync

Next ==
  \/ \E id \in Ids, rec \in RemoteRecords : RemoteChange(id, rec)
  \/ LoadStart
  \/ \E id \in Ids : EnumStep(id)
  \/ EnumFail
  \/ EnumDone
  \/ \E id \in Ids, ok \in BOOLEAN : RenderSettle(id, ok)
  \/ \E id \in Ids : ParseOk(id)
  \/ \E id \in Ids : ParseFail(id)
  \/ JoinResolve
  \/ JoinReject

\* ------------------------------------------------------- the asset cache
\* An asset URL as new URL(url) parses it: the pathname split at '/', and
\* the query string.
Urls == [path : UrlPaths, query : Queries]
NoUrl == [path |-> <<>>, query |-> Undefined]

\* asset.ts:48-50: new URL(url).pathname.split('/').filter(Boolean)
Segments(url) == SelectSeq(url.path, LAMBDA seg : seg # "")

\* A destructuring that takes the last two segments for the subdirectory
\* and the file name.
MutLastTwo(segs) ==
  [parentId |-> IF Len(segs) >= 1 THEN segs[1] ELSE Undefined,
   objId    |-> IF Len(segs) >= 2 THEN segs[Len(segs) - 1] ELSE Undefined,
   fileName |-> IF Len(segs) >= 2 THEN segs[Len(segs)] ELSE Undefined]

\* asset.ts:48: const [parentId, objId, fileName] = the first three segments
Destructure(segs) ==
  [parentId |-> IF Len(segs) >= 1 THEN segs[1] ELSE Undefined,
   objId    |-> IF Len(segs) >= 2 THEN segs[2] ELSE Undefined,
   fileName |-> IF Len(segs) >= 3 THEN segs[3] ELSE Undefined]

\* A validity test that asks for a fourth segment.
MutNeedsFour(url) == Len(SelectSeq(url.path, LAMBDA seg : seg # "")) < 4

\* asset.ts:52: !fileName || !parentId || !objId
InvalidUrl(url) ==
  LET d == Destructure(Segments(url))
  IN d.fileName = Undefined \/ d.parentId = Undefined \/ d.objId = Undefined

\* asset.ts:58-63: path.resolve(path.resolve(assetPath, objId), fileName),
\* as the pair of the subdirectory and the file name under assetPath.
FilePath(url) ==
  LET d == Destructure(Segments(url)) IN <<d.objId, d.fileName>>

NoFile == <<Undefined, Undefined>>
LocalPaths == {FilePath(u) : u \in {v \in Urls : ~InvalidUrl(v)}}

\* A cache lookup that leaves the override out.
MutNoOverride(fs, path, ignoreCache) == fs[path] = "absent"

\* asset.ts:65: ignoreCache || !fse.existsSync(filePath)
IsMiss(fs, path, ignoreCache) == ignoreCache \/ fs[path] = "absent"

IdleCall ==
  [pc |-> "idle", url |-> NoUrl, ignoreCache |-> FALSE, file |-> NoFile,
   existed |-> FALSE, found |-> "absent", fetches |-> 0, tag |-> "none",
   wr |-> "none", error |-> "none", after |-> {}]

AssetInit ==
  /\ rootExists \in BOOLEAN
  /\ dirs = {}
  /\ files = [f \in LocalPaths |-> "absent"]
  /\ call = [p \in Procs |-> IdleCall]

\* asset.ts:40-66 and 72-80: downloadFile from its call to its first await or
\* to its end, as the call record it leaves: the throw for a missing root or
\* an invalid URL, the cache hit with its tag, or the fetch it starts.
Started(c, url, ignoreCache, root, fs) ==
  LET c1 == [c EXCEPT !.url = url, !.ignoreCache = ignoreCache]
  IN IF ~root
       THEN [c1 EXCEPT !.pc = "threw", !.error = "no directory"]
     ELSE IF InvalidUrl(url)
       THEN [c1 EXCEPT !.pc = "threw", !.error = "invalid url"]
     ELSE LET path == FilePath(url)
              d == [c1 EXCEPT !.file = path, !.existed = (fs[path] # "absent"),
                              !.found = fs[path]]
          IN IF IsMiss(fs, path, ignoreCache)
               THEN [d EXCEPT !.pc = "fetching", !.fetches = 1]
               ELSE [d EXCEPT !.pc = "returned", !.tag = "cached"]

\* asset.ts:58-59: fse.ensureDirSync(saveDirPath), reached after both checks
EnsuredDirs(ds, url, root) ==
  IF root /\ ~InvalidUrl(url) THEN ds \cup {FilePath(url)[1]} ELSE ds

\* asset.ts:66-71: fetch and arrayBuffer settle; on success the write is
\* started and not awaited, 'download' is tagged and the path is returned;
\* on failure downloadFile throws.
Fetched(c, ok) ==
  IF ok THEN [c EXCEPT !.pc = "returned", !.tag = "download", !.wr = "queued"]
        ELSE [c EXCEPT !.pc = "threw", !.error = "fetch failed"]

\* downloadFile is called and runs to its first await or to its end,
\* asset.ts:40-66 and 72-80.
Start(p, url, ignoreCache) ==
  /\ call[p].pc = "idle"
  /\ call' = [call EXCEPT ![p] =
       Started([@ EXCEPT !.after = {q \in Procs \ {p} : call[q].pc = "returned"}],
               url, ignoreCache, rootExists, files)]
  /\ dirs' = EnsuredDirs(dirs, url, rootExists)
  /\ UNCHANGED <<rootExists, files>>
  /\ UNCHANGED offAsset

\* fetch and arrayBuffer settle, asset.ts:66-71.
FetchSettle(p, ok) ==
  /\ call[p].pc = "fetching"
  /\ call' = [call EXCEPT ![p] = Fetched(@, ok)]
  /\ UNCHANGED <<rootExists, dirs, files>>
  /\ UNCHANGED offAsset

\* The write started at asset.ts:68 opens the file: it exists from then on,
\* truncated.
WriteOpen(p) ==
  /\ call[p].wr = "queued"
  /\ files' = [files EXCEPT ![call[p].file] = "partial"]
  /\ call' = [call EXCEPT ![p].wr = "open"]
  /\ UNCHANGED <<rootExists, dirs>>
  /\ UNCHANGED offAsset

\* The write started at asset.ts:68 has written every byte.
WriteFinish(p) ==
  /\ call[p].wr = "open"
  /\ files' = [files EXCEPT ![call[p].file] = "complete"]
  /\ call' = [call EXCEPT ![p].wr = "done"]
  /\ UNCHANGED <<rootExists, dirs>>
  /\ UNCHANGED offAsset

\* The write started at asset.ts:68 fails (disk full, permissions): nobody
\* awaits its promise, the file stays as the write left it.
WriteFail(p) ==
  /\ call[p].wr \in {"queued", "open"}
  /\ call' = [call EXCEPT ![p].wr = "failed"]
  /\ UNCHANGED <<rootExists, dirs, files>>
  /\ UNCHANGED offAsset

\* A resolution whose call has ended and whose write has ended or failed is
\* free for the next call.
Release(p) ==
  /\ call[p].pc \in {"returned", "threw"}
  /\ call[p].wr \in {"none", "done", "failed"}
  /\ call' = [q \in Procs |->
       IF q = p THEN IdleCall ELSE [call[q] EXCEPT !.after = @ \ {p}]]
  /\ UNCHANGED <<rootExists, dirs, files>>
  /\ UNCHANGED offAsset

AssetSpecNext ==
  \/ \E p \in Procs, url \in Urls, ign \in BOOLEAN : Start(p, url, ign)
  \/ \E p \in Procs, ok \in BOOLEAN : FetchSettle(p, ok)
  \/ \E p \in Procs : WriteOpen(p)
  \/ \E p \in Procs : WriteFinish(p)
  \/ \E p \in Procs : WriteFail(p)
  \/ \E p \in Procs : Release(p)

\* ------------------------------------------------------------ #fetchAsset
\* The asset resolutions one renderer may count, and the URLs its
\* references carry: one that can be decomposed and one that cannot.
MaxAssets == 2
HostedUrl == [path |-> <<"", "p", "o1", "a.png">>, query |-> QueryNames[1]]
BrokenUrl == [path |-> <<"", "o1", "a.png">>, query |-> QueryNames[1]]
AssetUrls == {HostedUrl, BrokenUrl}

\* An asset reference (AssetObject): null, an emoji, an external URL or a
\* file hosted by the remote; `local` is the path that replaced the URL and
\* `resolved` says that resolveAssetPath was applied to it.
NullRef == [type |-> "null", url |-> NoUrl, local |-> NoFile, resolved |-> FALSE]
Refs ==
  {NullRef}
  \cup [type : {"emoji"}, url : {NoUrl}, local : {NoFile}, resolved : {FALSE}]
  \cup [type : {"external", "file"}, url : AssetUrls, local : {NoFile}, resolved : {FALSE}]

\* A test that sends every reference with a URL to the cache.
MutAnyUrl(ref) == ref.url # NoUrl

\* render.ts:211, negated: fileObject !== null && fileObject.type === 'file'
IsHosted(ref) == ref.type # "null" /\ ref.type = "file"

\* render.ts:224-230: the reference with its URL replaced by the local path
Rewritten(ref, filePath, resolvePath) ==
  [ref EXCEPT !.local = filePath, !.resolved = resolvePath]

\* A tag callback that counts nothing.
MutNoTag(analytics, type) == analytics

\* render.ts:220: tag: (type) => this.#assetAnalytics[type]++
Tag(analytics, type) ==
  IF type = "none" THEN analytics ELSE [analytics EXCEPT ![type] = @ + 1]

IdleFetch ==
  [pc |-> "idle", owner |-> Undefined, ref |-> NullRef, resolvePath |-> FALSE,
   out |-> NullRef, after |-> {}]

\* render.ts:107-108: the fields of a new NotionPageRenderer
NoAnalytics == [download |-> 0, cached |-> 0]

FetchInit ==
  /\ fa = [p \in Procs |-> IdleFetch]
  /\ assetPaths = [o \in Ids |-> <<>>]
  /\ assetAnalytics = [o \in Ids |-> NoAnalytics]

\* The resolutions of renderer o that have been counted or are fetching.
Counted(o) ==
  assetAnalytics[o].download + assetAnalytics[o].cached
  + Cardinality({q \in Procs : fa[q].owner = o /\ call[q].pc = "fetching"})

\* #fetchAsset is called by renderer o and runs to the await of downloadFile
\* or to its return, render.ts:209-221.
FetchAsset(p, o, ref, resolvePath) ==
  /\ fa[p].pc = "idle" /\ call[p].pc = "idle"
  /\ Counted(o) < MaxAssets
  /\ LET f == [pc |-> "awaiting", owner |-> o, ref |-> ref,
               resolvePath |-> resolvePath, out |-> NullRef,
               after |-> {q \in Procs \ {p} : fa[q].pc = "returned" /\ fa[q].owner = o}]
     IN IF ~IsHosted(ref)
          THEN /\ fa' = [fa EXCEPT ![p] = [f EXCEPT !.pc = "returned", !.out = ref]]
               /\ UNCHANGED <<rootExists, dirs, files, call, assetPaths, assetAnalytics>>
          ELSE LET c == Started([call[p] EXCEPT !.after =
                                   {q \in Procs \ {p} : call[q].pc = "returned"}],
                                ref.url, FALSE, TRUE, files)
               IN /\ rootExists' = TRUE
                  /\ dirs' = EnsuredDirs(dirs, ref.url, TRUE)
                  /\ call' = [call EXCEPT ![p] = c]
                  /\ assetAnalytics' = [assetAnalytics EXCEPT ![o] = Tag(@, c.tag)]
                  /\ fa' = [fa EXCEPT ![p] = f]
                  /\ UNCHANGED <<files, assetPaths>>
  /\ UNCHANGED offFetch

\* fetch and arrayBuffer of the awaited downloadFile settle, asset.ts:66-71
\* with the tag callback of render.ts:220.
DownloadSettle(p, ok) ==
  /\ fa[p].pc = "awaiting" /\ call[p].pc = "fetching"
  /\ call' = [call EXCEPT ![p] = Fetched(@, ok)]
  /\ assetAnalytics' =
       [assetAnalytics EXCEPT ![fa[p].owner] = Tag(@, Fetched(call[p], ok).tag)]
  /\ UNCHANGED <<rootExists, dirs, files, fa, assetPaths>>
  /\ UNCHANGED offFetch

\* #fetchAsset resumes after the await of downloadFile, render.ts:223-237:
\* the path is pushed and the rewritten reference returned, or the catch
\* returns the reference it was given.
FetchAssetResume(p) ==
  /\ fa[p].pc = "awaiting" /\ call[p].pc \in {"returned", "threw"}
  /\ IF call[p].pc = "returned"
       THEN /\ assetPaths' = [assetPaths EXCEPT ![fa[p].owner] = Append(@, call[p].file)]
            /\ fa' = [fa EXCEPT ![p].pc = "returned",
                                ![p].out = Rewritten(fa[p].ref, call[p].file, fa[p].resolvePath)]
       ELSE /\ fa' = [fa EXCEPT ![p].pc = "returned", ![p].out = fa[p].ref]
            /\ UNCHANGED assetPaths
  /\ UNCHANGED <<rootExists, dirs, files, call, assetAnalytics>>
  /\ UNCHANGED offFetch

\* A resolution that has returned and whose write has ended is free for the
\* next call of #fetchAsset.
FetchAssetRelease(p) ==
  /\ fa[p].pc = "returned"
  /\ call[p].wr \in {"none", "done", "failed"}
  /\ fa' = [q \in Procs |->
       IF q = p THEN IdleFetch ELSE [fa[q] EXCEPT !.after = @ \ {p}]]
  /\ call' = [q \in Procs |->
       IF q = p THEN IdleCall ELSE [call[q] EXCEPT !.after = @ \ {p}]]
  /\ UNCHANGED <<rootExists, dirs, files, assetPaths, assetAnalytics>>
  /\ UNCHANGED offFetch

\* The next pass constructs a new renderer for page o, part_002:135.
NewRenderer(o) ==
  /\ \A p \in Procs : fa[p].owner # o
  /\ assetPaths[o] # <<>> \/ assetAnalytics[o] # NoAnalytics
  /\ assetPaths' = [assetPaths EXCEPT ![o] = <<>>]
  /\ assetAnalytics' = [assetAnalytics EXCEPT ![o] = NoAnalytics]
  /\ UNCHANGED <<rootExists, dirs, files, call, fa>>
  /\ UNCHANGED offFetch

FetchSpecNext ==
  \/ \E p \in Procs, o \in Ids, ref \in Refs, rp \in BOOLEAN : FetchAsset(p, o, ref, rp)
  \/ \E p \in Procs, ok \in BOOLEAN : DownloadSettle(p, ok)
  \/ \E p \in Procs : WriteOpen(p)
  \/ \E p \in Procs : WriteFinish(p)
  \/ \E p \in Procs : WriteFail(p)
  \/ \E p \in Procs : FetchAssetResume(p)
  \/ \E p \in Procs : FetchAssetRelease(p)
  \/ \E o \in Ids : NewRenderer(o)

\* ---------------------------------------------------------------- process
\* The list item of a TOC as rehype-toc builds it: a link and, for a heading
\* with sub-headings, a sub list (the empty sequence when there is none).
Li(text, sub) ==
  [link |-> [value |-> text, href |-> <<"#", text>>], sub |-> sub]

\* The TOC trees customizeTOC may be handed: of a document without headings,
\* with one heading, with nested outlines of two and of three levels, and a
\* root that is not a nav element.
Tocs ==
  { [tagName |-> "nav", ol |-> <<>>],
    [tagName |-> "nav", ol |-> <<Li("intro", <<>>)>>],
    [tagName |-> "nav", ol |-> <<Li("guide", <<Li("setup", <<>>)>>), Li("usage", <<>>)>>],
    [tagName |-> "nav", ol |->
       <<Li("a", <<Li("b", <<Li("c", <<>>)>>), Li("d", <<>>)>>), Li("e", <<>>)>>],
    [tagName |-> "div", ol |-> <<Li("intro", <<>>)>>] }
NoToc == [tagName |-> Undefined, ol |-> <<>>]

\* A flattening that leaves the sub lists out.
MutTopOnly(ol, depth) ==
  [i \in 1..Len(ol) |->
     [depth |-> depth, text |-> ol[i].link.value, slug |-> Tail(ol[i].link.href)]]

\* render.ts:62-79: listElementToTree, the flatMap over the items of a list
RECURSIVE ListElementToTree(_, _)
ListElementToTree(ol, depth) ==
  IF ol = <<>> THEN <<>>
  ELSE LET li == Head(ol)
           currentHeading ==
             [depth |-> depth, text |-> li.link.value, slug |-> Tail(li.link.href)]
       IN <<currentHeading>>
          \o (IF li.sub # <<>> THEN ListElementToTree(li.sub, depth + 1) ELSE <<>>)
          \o ListElementToTree(Tail(ol), depth)

\* render.ts:57-82: extractTocHeadings; it throws for a root that is not a
\* nav element
ExtractTocHeadings(toc) ==
  IF toc.tagName # "nav"
    THEN [threw |-> TRUE, value |-> <<>>]
    ELSE [threw |-> FALSE, value |-> ListElementToTree(toc.ol, 0)]

\* render.ts:37-40: customizeTOC assigns the outline and returns false
CustomizeTOC(toc) ==
  LET r == ExtractTocHeadings(toc)
  IN [threw |-> r.threw, headings |-> r.value,
      returned |-> IF r.threw THEN Undefined ELSE "false"]

\* ------------------------------------------------------ the transform chain
\* A stage of the chain: a plugin and the options it is used with.
NoOptions == [value |-> Undefined, assetPaths |-> <<>>]
Stage(plugin, options) == [plugin |-> plugin, options |-> options]

\* An entry of the option rehypePlugins: a plugin or a pair of a plugin and
\* its options, the plugin given as code or as the name of a module.
PluginEntry(plugin, byName, pair, value) ==
  [plugin |-> plugin, byName |-> byName, pair |-> pair,
   options |-> [value |-> value, assetPaths |-> <<>>]]

\* The lists of plugins a caller may configure: up to MaxPlugins entries
\* of pairwise different plugins, none of them a mandatory one.
MaxPlugins == 2
PluginEntries ==
  { PluginEntry("pluginX", FALSE, FALSE, Undefined),
    PluginEntry("module-pluginY", TRUE, TRUE, "optsY"),
    PluginEntry("pluginZ", FALSE, TRUE, "optsZ") }
PluginLists ==
  UNION { {l \in [1..n -> PluginEntries] : \A i, j \in 1..n : l[i] = l[j] => i = j}
          : n \in 0..MaxPlugins }

\* part_002:86: (await import(plugin)).default
Import(name) == IF name = "module-pluginY" THEN "pluginY" ELSE Undefined

\* part_002:77-89: one entry of rehypePlugins as the pair [plugin, options]
LoadPlugin(config) ==
  Stage(IF config.byName THEN Import(config.plugin) ELSE config.plugin,
        IF config.pair THEN config.options ELSE NoOptions)

\* A use that puts the stage in front of the chain.
MutUseFirst(chain, plugin, options) == <<Stage(plugin, options)>> \o chain

\* processor.use(plugin, options): the stage is attached after those the
\* processor has
Use(chain, plugin, options) == Append(chain, Stage(plugin, options))

\* render.ts:25-41: baseProcessor and processorWithToc
ProcessorWithToc ==
  Use(Use(Use(Use(Use(<<>>,
    "notionRehype", [value |-> "{}", assetPaths |-> <<>>]),
    "rehypeSlug", NoOptions),
    "rehypeKatex", NoOptions),
    "rehypeStringify", NoOptions),
    "rehypeToc", [value |-> "customizeTOC", assetPaths |-> <<>>])

\* render.ts:42-48: the loop over the loaded plugins
RECURSIVE UseAll(_, _)
UseAll(chain, plugins) ==
  IF plugins = <<>> THEN chain
  ELSE UseAll(Use(chain, Head(plugins).plugin, Head(plugins).options), Tail(plugins))

\* part_002:72-91 and render.ts:42-48: the processor of the loader
Processor(configs) ==
  UseAll(ProcessorWithToc, [i \in 1..Len(configs) |-> LoadPlugin(configs[i])])

\* render.ts:51: p().use(rehypeAssets(), { assetPaths }) on a copy
DocumentProcessor(configs, paths) ==
  Use(Processor(configs), "rehypeAssets", [value |-> Undefined, assetPaths |-> paths])

\* The asset path lists process may be called with.
PathLists == {<<>>, <<FilePath(HostedUrl)>>}

IdleDoc ==
  [pc |-> "idle", toc |-> NoToc, paths |-> <<>>, chain |-> <<>>,
   tocReturned |-> Undefined, out |-> <<>>]

ProcInit ==
  /\ doc = [id \in Ids |-> IdleDoc]
  /\ headings = <<>>
  /\ rehypePlugins = <<>>

\* render.ts:50-51: process is called for the blocks of page id, whose TOC
\* will be toc, with the asset paths of its renderer, and awaits the
\* processor.
ProcessCall(id, toc, paths) ==
  /\ doc[id].pc = "idle"
  /\ doc' = [doc EXCEPT ![id] = [IdleDoc EXCEPT !.pc = "building", !.toc = toc,
                                               !.paths = paths]]
  /\ UNCHANGED <<headings, rehypePlugins>>
  /\ UNCHANGED offProc

\* render.ts:51-52 with 36-41: the processor of the document is built and
\* runs over it; rehype-toc calls customizeTOC, which assigns the shared
\* variable. The run may fail in a plugin before the TOC or in one after it,
\* and it fails when customizeTOC throws.
ProcessRun(id, outcome) ==
  /\ doc[id].pc = "building"
  /\ LET chain == DocumentProcessor(rehypePlugins, doc[id].paths)
         r == CustomizeTOC(doc[id].toc)
     IN IF outcome = "failBefore" \/ r.threw
          THEN /\ doc' = [doc EXCEPT ![id].pc = "threw", ![id].chain = chain]
               /\ UNCHANGED headings
          ELSE /\ doc' = [doc EXCEPT ![id].pc = IF outcome = "ok" THEN "processed" ELSE "threw",
                                     ![id].chain = chain,
                                     ![id].tocReturned = r.returned]
               /\ headings' = r.headings
  /\ UNCHANGED rehypePlugins
  /\ UNCHANGED offProc

\* render.ts:53: after the await, process returns the shared variable.
ProcessReturn(id) ==
  /\ doc[id].pc = "processed"
  /\ doc' = [doc EXCEPT ![id].pc = "returned", ![id].out = headings]
  /\ UNCHANGED <<headings, rehypePlugins>>
  /\ UNCHANGED offProc

\* The render task of page id has ended; a later pass may render it again.
ProcessEnd(id) ==
  /\ doc[id].pc \in {"returned", "threw"}
  /\ doc' = [doc EXCEPT ![id] = IdleDoc]
  /\ UNCHANGED <<headings, rehypePlugins>>
  /\ UNCHANGED offProc

ProcSpecNext ==
  \/ \E id \in Ids, toc \in Tocs, paths \in PathLists : ProcessCall(id, toc, paths)
  \/ \E id \in Ids, outcome \in {"ok", "failBefore", "failAfter"} : ProcessRun(id, outcome)
  \/ \E id \in Ids : ProcessReturn(id)
  \/ \E id \in Ids : ProcessEnd(id)

\* ------------------------------------------------------------ fetchBlocks
\* The block tree of a page as the remote lists it, and the size of one page
\* of blocks.children.list.
PageSize == 2
Root == "page"
BlockIds == {"b1", "b2", "b3", "b4", "b5", "b6"}
ChildrenOf(b) ==
  CASE b = Root -> <<"b1", "b2", "b3">>
    [] b = "b1" -> <<"b4", "b5">>
    [] b = "b4" -> <<"b6">>
    [] OTHER    -> <<>>
ParentOf(b) ==
  CHOOSE a \in BlockIds \cup {Root} : \E i \in 1..Len(ChildrenOf(a)) : ChildrenOf(a)[i] = b

\* block.has_children
HasChildren(b) == ChildrenOf(b) # <<>>

\* One page of the paginated list, from the cursor on.
PageAt(children, cursor) ==
  SubSeq(children, cursor,
         IF cursor + PageSize - 1 < Len(children) THEN cursor + PageSize - 1
         ELSE Len(children))

\* A collector that puts every item in front.
MutPushFront(res, item) == <<item>> \o res

\* part_001:10-11: awaitAll pushes every item the generator yields
AwaitAllPush(res, item) == Append(res, item)

\* The kinds of the blocks of the tree: a toggle with children, an image, a
\* video, a callout with a child, a paragraph and a file.
BlockType(b) ==
  CASE b = "b1" -> "toggle"
    [] b = "b2" -> "image"
    [] b = "b3" -> "video"
    [] b = "b4" -> "callout"
    [] b = "b5" -> "paragraph"
    [] OTHER    -> "file"

\* render.ts:264-276: the kinds whose payload carries an asset reference
AssetKinds == {"file", "image", "video", "audio", "callout"}

\* render.ts:265-281: the second argument of #fetchAsset (true by default)
ResolvePathOf(type) == type \notin {"image", "callout"}

\* The asset reference of a block: hosted files for the image, the icon of
\* the callout and the file, an external URL for the video.
AssetOf(b) ==
  IF BlockType(b) \notin AssetKinds THEN NullRef
  ELSE [type |-> IF BlockType(b) = "video" THEN "external" ELSE "file",
        url |-> HostedUrl, local |-> NoFile, resolved |-> FALSE]

\* The record blocks.children.list gives for a full block: its identifier,
\* type and has_children, and the payload block[block.type] with its text,
\* its asset reference and no children.
NoChildren == [set |-> FALSE, list |-> <<>>]
Received(b) ==
  [id |-> b, type |-> BlockType(b), has_children |-> HasChildren(b),
   payload |-> [text |-> <<"text of", b>>, asset |-> AssetOf(b),
                children |-> NoChildren]]
NotYielded ==
  [id |-> Undefined, type |-> Undefined, has_children |-> FALSE,
   payload |-> [text |-> <<>>, asset |-> NullRef, children |-> NoChildren]]

\* render.ts:209-238: what #fetchAsset returns, the download having
\* succeeded or not
FetchAssetResult(ref, resolvePath, ok) ==
  IF IsHosted(ref) /\ ok /\ ~InvalidUrl(ref.url)
    THEN Rewritten(ref, FilePath(ref.url), resolvePath)
    ELSE ref

\* render.ts:256: block[block.type].children = children
AttachChildren(rec, children) ==
  [rec EXCEPT !.payload.children = [set |-> TRUE, list |-> children]]

\* A yield that keeps nothing of the payload but the asset.
MutBareAsset(rec, out) ==
  [rec EXCEPT !.payload = [text |-> <<>>, asset |-> out, children |-> NoChildren]]

\* render.ts:265-283: { ...block, [block.type]: the payload with its asset
\* reference replaced }
WithAsset(rec, out) == [rec EXCEPT !.payload.asset = out]

\* render.ts:260-287: the block the switch yields
YieldedBlock(rec, ok) ==
  IF rec.type \in AssetKinds
    THEN WithAsset(rec, FetchAssetResult(rec.payload.asset, ResolvePathOf(rec.type), ok))
    ELSE rec

\* A call of fetchBlocks consumed by awaitAll: the block whose children it
\* lists, the cursor and the rest of the current page, the child whose
\* subtree is being awaited, and what awaitAll has collected.
NewFrame(b) ==
  [parent |-> b, cursor |-> 1, more |-> TRUE, page |-> <<>>,
   cur |-> Undefined, acc |-> <<>>]

Top == stack[Len(stack)]
Pulling == tpc = "running" /\ Top.cur = Undefined

TreeInit ==
  /\ isFull \in [BlockIds -> BOOLEAN]
  /\ stack = <<>>
  /\ kids = [b \in BlockIds |-> <<>>]
  /\ attached = {}
  /\ yieldLog = <<>>
  /\ listed = {}
  /\ yielded = [b \in BlockIds |-> NotYielded]
  /\ tpc = "idle"
  /\ blocks = <<>>

\* render.ts:139: awaitAll(this.fetchBlocks(client, page.id))
FetchBlocksCall ==
  /\ tpc = "idle"
  /\ tpc' = "running"
  /\ stack' = <<NewFrame(Root)>>
  /\ UNCHANGED <<isFull, yielded, kids, attached, yieldLog, listed, blocks>>
  /\ UNCHANGED offTree

\* render.ts:246: iteratePaginatedAPI requests the next page of the list; a
\* failed request is thrown through every awaiting call.
ListPage(ok) ==
  /\ Pulling /\ Top.page = <<>> /\ Top.more
  /\ listed' = listed \cup {Top.parent}
  /\ IF ok
       THEN LET children == ChildrenOf(Top.parent)
                page == PageAt(children, Top.cursor)
                next == Top.cursor + Len(page)
            IN /\ stack' = [stack EXCEPT ![Len(stack)] =
                    [@ EXCEPT !.page = page, !.cursor = next,
                              !.more = (next <= Len(children))]]
               /\ UNCHANGED tpc
       ELSE /\ stack' = <<>>
            /\ tpc' = "failed"
  /\ UNCHANGED <<isFull, yielded, kids, attached, yieldLog, blocks>>
  /\ UNCHANGED offTree

\* render.ts:249: if (!isFullBlock(block)) continue
SkipPartial ==
  /\ Pulling /\ Top.page # <<>>
  /\ ~isFull[Head(Top.page)]
  /\ stack' = [stack EXCEPT ![Len(stack)].page = Tail(@)]
  /\ UNCHANGED <<isFull, yielded, kids, attached, yieldLog, listed, tpc, blocks>>
  /\ UNCHANGED offTree

\* render.ts:251-253: the subtree of a block with children is awaited
Descend ==
  /\ Pulling /\ Top.page # <<>>
  /\ isFull[Head(Top.page)] /\ HasChildren(Head(Top.page))
  /\ stack' = Append([stack EXCEPT ![Len(stack)].page = Tail(@),
                                   ![Len(stack)].cur = Head(Top.page)],
                     NewFrame(Head(Top.page)))
  /\ UNCHANGED <<isFull, yielded, kids, attached, yieldLog, listed, tpc, blocks>>
  /\ UNCHANGED offTree

\* render.ts:260-287: a block without children is yielded (the asset its
\* type may carry is resolved by #fetchAsset, which never throws) and
\* awaitAll collects it.
YieldLeaf(ok) ==
  /\ Pulling /\ Top.page # <<>>
  /\ isFull[Head(Top.page)] /\ ~HasChildren(Head(Top.page))
  /\ stack' = [stack EXCEPT ![Len(stack)].page = Tail(@),
                            ![Len(stack)].acc = AwaitAllPush(@, Head(Top.page))]
  /\ yieldLog' = Append(yieldLog, Head(Top.page))
  /\ yielded' = [yielded EXCEPT ![Head(Top.page)] =
       YieldedBlock(Received(Head(Top.page)), ok)]
  /\ UNCHANGED <<isFull, kids, attached, listed, tpc, blocks>>
  /\ UNCHANGED offTree

\* render.ts:253-287: the nested awaitAll returns; its array is attached as
\* the children of the awaiting block, which is then yielded and collected.
Ascend(ok) ==
  /\ Pulling /\ Top.page = <<>> /\ ~Top.more
  /\ Len(stack) > 1
  /\ LET outer == stack[Len(stack) - 1]
         b == outer.cur
     IN /\ kids' = [kids EXCEPT ![b] = Top.acc]
        /\ attached' = attached \cup {b}
        /\ yieldLog' = Append(yieldLog, b)
        /\ yielded' = [yielded EXCEPT ![b] =
             YieldedBlock(AttachChildren(Received(b), Top.acc), ok)]
        /\ stack' = [SubSeq(stack, 1, Len(stack) - 1) EXCEPT ![Len(stack) - 1] =
             [outer EXCEPT !.cur = Undefined, !.acc = AwaitAllPush(@, b)]]
  /\ UNCHANGED <<isFull, listed, tpc, blocks>>
  /\ UNCHANGED offTree

\* render.ts:139: the outermost awaitAll returns the blocks of the page
Finish ==
  /\ Pulling /\ Top.page = <<>> /\ ~Top.more
  /\ Len(stack) = 1
  /\ blocks' = Top.acc
  /\ tpc' = "done"
  /\ stack' = <<>>
  /\ UNCHANGED <<isFull, yielded, kids, attached, yieldLog, listed>>
  /\ UNCHANGED offTree

TreeSpecNext ==
  \/ FetchBlocksCall
  \/ \E ok \in BOOLEAN : ListPage(ok)
  \/ SkipPartial
  \/ Descend
  \/ \E ok \in BOOLEAN : YieldLeaf(ok)
  \/ \E ok \in BOOLEAN : Ascend(ok)
  \/ Finish

\* ------------------------------------------------------------ render
\* NotionPageRenderer.render, render.ts:130-171, over #getPageData
\* (178-200), fetchBlocks and process, for one renderer.

\* The asset references of a page.
HostedRef == [type |-> "file", url |-> HostedUrl, local |-> NoFile, resolved |-> FALSE]
BrokenRef ==
  [type |-> "file", url |-> BrokenUrl, local |-> NoFile, resolved |-> FALSE]
ExternalRef == [HostedRef EXCEPT !.type = "external"]
EmojiRef == [type |-> "emoji", url |-> NoUrl, local |-> NoFile, resolved |-> FALSE]

\* The most files a files property holds.
MaxFiles == 2

\* A property of the page: its type and, for a files property, its files.
Property(type, fs) == [type |-> type, files |-> fs]
PropertyLists ==
  { <<>>,
    <<Property("title", <<>>), Property("files", <<HostedRef, ExternalRef>>)>>,
    <<Property("files", <<HostedRef, BrokenRef>>), Property("rich_text", <<>>),
      Property("files", <<HostedRef>>)>> }

\* The blocks of the page in the order fetchBlocks comes to them, with the
\* asset reference of each.
Block(type, ref) == [type |-> type, asset |-> ref]
BlockLists ==
  { <<>>,
    <<Block("paragraph", NullRef), Block("image", HostedRef),
      Block("video", ExternalRef)>> }

Pages ==
  [cover : {NullRef, HostedRef}, icon : {EmojiRef, HostedRef},
   properties : PropertyLists, blocks : BlockLists]

\* A call of #fetchAsset is named by the reference it resolves.
CoverSlot == <<"cover", 0, 0>>
IconSlot == <<"icon", 0, 0>>
FileSlot(k, i) == <<"file", k, i>>
BlockSlot(i) == <<"block", i, 0>>
RefOf(slot) ==
  CASE slot[1] = "cover" -> rPage.cover
    [] slot[1] = "icon"  -> rPage.icon
    [] slot[1] = "file"  -> rPage.properties[slot[2]].files[slot[3]]
    [] OTHER             -> rPage.blocks[slot[2]].asset

\* render.ts:192: prop.files.map(async (f) => await this.#fetchAsset(f))
\* calls #fetchAsset for every file of the property
FileSlots(k) == {FileSlot(k, i) : i \in 1..Len(rPage.properties[k].files)}

DocSlots ==
  {CoverSlot, IconSlot}
  \cup UNION {FileSlots(k) : k \in {j \in 1..Len(rPage.properties) :
                                      rPage.properties[j].type = "files"}}
BlockSlots ==
  {BlockSlot(i) : i \in {j \in 1..Len(rPage.blocks) :
                           rPage.blocks[j].type \in AssetKinds}}

\* An await that goes on whatever is pending.
MutNoAwait(pend) == TRUE

\* render.ts:182, 185, 192, 265-281: the await of a call of #fetchAsset, or
\* of the Promise.all of several, resumes when none of them is pending
AllReturned(pend) == pend = {}

\* render.ts:218-223: the path a returning call of #fetchAsset pushes
Pushes(slot, ok) == IsHosted(RefOf(slot)) /\ ok /\ ~InvalidUrl(RefOf(slot).url)
PushedPaths(ps, slot, ok) ==
  IF Pushes(slot, ok) THEN Append(ps, FilePath(RefOf(slot).url)) ELSE ps

RenderInit ==
  /\ rPage \in Pages
  /\ rStage = "idle"
  /\ rProp = 0
  /\ rBlock = 0
  /\ rPending = {}
  /\ rReturned = <<>>
  /\ rSaved = {}
  /\ rPaths = <<>>
  /\ rPassed = <<>>

RenderAtRest ==
  /\ RenderInit
  /\ rPage = [cover |-> NullRef, icon |-> EmojiRef, properties |-> <<>>,
              blocks |-> <<>>]

\* A call of #fetchAsset returns (it never throws, render.ts:231-237).
Return(slot, ok) ==
  /\ slot \in rPending
  /\ rReturned' = Append(rReturned, slot)
  /\ rSaved' = IF Pushes(slot, ok) THEN rSaved \cup {slot} ELSE rSaved
  /\ rPaths' = PushedPaths(rPaths, slot, ok)

\* render.ts:135, 182: render calls #getPageData, which calls #fetchAsset
\* for the cover
RenderCall ==
  /\ rStage = "idle"
  /\ rStage' = "cover"
  /\ rPending' = {CoverSlot}
  /\ UNCHANGED <<rPage, rProp, rBlock, rReturned, rSaved, rPaths, rPassed>>
  /\ UNCHANGED offRender

\* render.ts:182-185: the cover is resolved, #fetchAsset is called for the
\* icon
CoverReturn(ok) ==
  /\ rStage = "cover"
  /\ Return(CoverSlot, ok)
  /\ rStage' = "icon"
  /\ rPending' = {IconSlot}
  /\ UNCHANGED <<rPage, rProp, rBlock, rPassed>>
  /\ UNCHANGED offRender

\* render.ts:185-189: the icon is resolved, the loop over the properties
\* begins
IconReturn(ok) ==
  /\ rStage = "icon"
  /\ Return(IconSlot, ok)
  /\ rStage' = "props"
  /\ rProp' = 1
  /\ rPending' = {}
  /\ UNCHANGED <<rPage, rBlock, rPassed>>
  /\ UNCHANGED offRender

\* render.ts:190: a property of another type than files is passed over
PropSkip ==
  /\ rStage = "props"
  /\ rProp <= Len(rPage.properties)
  /\ rPage.properties[rProp].type # "files"
  /\ rProp' = rProp + 1
  /\ UNCHANGED <<rPage, rStage, rBlock, rPending, rReturned, rSaved, rPaths, rPassed>>
  /\ UNCHANGED offRender

\* render.ts:192: #fetchAsset is called for every file of a files property
\* at once
PropStart ==
  /\ rStage = "props"
  /\ rProp <= Len(rPage.properties)
  /\ rPage.properties[rProp].type = "files"
  /\ rStage' = "files"
  /\ rPending' = rPending \cup FileSlots(rProp)
  /\ UNCHANGED <<rPage, rProp, rBlock, rReturned, rSaved, rPaths, rPassed>>
  /\ UNCHANGED offRender

\* One of the calls of the Promise.all returns, in any order.
FileReturn(i, ok) ==
  /\ rStage = "files"
  /\ Return(FileSlot(rProp, i), ok)
  /\ rPending' = rPending \ {FileSlot(rProp, i)}
  /\ UNCHANGED <<rPage, rStage, rProp, rBlock, rPassed>>
  /\ UNCHANGED offRender

\* render.ts:192: the Promise.all of a files property is resolved, the loop
\* goes on
PropDone ==
  /\ rStage = "files" /\ AllReturned(rPending)
  /\ rStage' = "props"
  /\ rProp' = rProp + 1
  /\ UNCHANGED <<rPage, rBlock, rPending, rReturned, rSaved, rPaths, rPassed>>
  /\ UNCHANGED offRender

\* render.ts:196-199, 139: #getPageData returns, render calls
\* awaitAll(fetchBlocks)
BlocksCall ==
  /\ rStage = "props"
  /\ rProp > Len(rPage.properties)
  /\ rStage' = "blocks"
  /\ rBlock' = 1
  /\ UNCHANGED <<rPage, rProp, rPending, rReturned, rSaved, rPaths, rPassed>>
  /\ UNCHANGED offRender

\* render.ts:285-286: a block of another kind is yielded as it is
BlockPass ==
  /\ rStage = "blocks"
  /\ rBlock <= Len(rPage.blocks)
  /\ rPage.blocks[rBlock].type \notin AssetKinds
  /\ rBlock' = rBlock + 1
  /\ UNCHANGED <<rPage, rStage, rProp, rPending, rReturned, rSaved, rPaths, rPassed>>
  /\ UNCHANGED offRender

\* render.ts:264-283: #fetchAsset is called for the asset of the block
BlockStart ==
  /\ rStage = "blocks"
  /\ rBlock <= Len(rPage.blocks)
  /\ rPage.blocks[rBlock].type \in AssetKinds
  /\ rStage' = "asset"
  /\ rPending' = rPending \cup {BlockSlot(rBlock)}
  /\ UNCHANGED <<rPage, rProp, rBlock, rReturned, rSaved, rPaths, rPassed>>
  /\ UNCHANGED offRender

\* The call of #fetchAsset for the asset of the block returns.
BlockReturn(ok) ==
  /\ rStage = "asset"
  /\ Return(BlockSlot(rBlock), ok)
  /\ rPending' = rPending \ {BlockSlot(rBlock)}
  /\ UNCHANGED <<rPage, rStage, rProp, rBlock, rPassed>>
  /\ UNCHANGED offRender

\* render.ts:264-283: the asset is resolved and the block is yielded
BlockYield ==
  /\ rStage = "asset" /\ AllReturned(rPending)
  /\ rStage' = "blocks"
  /\ rBlock' = rBlock + 1
  /\ UNCHANGED <<rPage, rProp, rPending, rReturned, rSaved, rPaths, rPassed>>
  /\ UNCHANGED offRender

\* render.ts:246, 166-169: a request of the list of blocks fails; the error
\* is caught by render, which returns {}
BlocksFail ==
  /\ rStage = "blocks"
  /\ rStage' = "failed"
  /\ UNCHANGED <<rPage, rProp, rBlock, rPending, rReturned, rSaved, rPaths, rPassed>>
  /\ UNCHANGED offRender

\* render.ts:139, 152: awaitAll returns the blocks, render calls
\* process(blocks, this.#assetPaths)
ProcessStart ==
  /\ rStage = "blocks"
  /\ rBlock > Len(rPage.blocks)
  /\ rStage' = "process"
  /\ rPassed' = rPaths
  /\ UNCHANGED <<rPage, rProp, rBlock, rPending, rReturned, rSaved, rPaths>>
  /\ UNCHANGED offRender

\* render.ts:152-169: process returns, or throws and render returns {}
ProcessSettle(ok) ==
  /\ rStage = "process"
  /\ rStage' = IF ok THEN "rendered" ELSE "failed"
  /\ UNCHANGED <<rPage, rProp, rBlock, rPending, rReturned, rSaved, rPaths, rPassed>>
  /\ UNCHANGED offRender

RenderSpecNext ==
  \/ RenderCall
  \/ \E ok \in BOOLEAN : CoverReturn(ok)
  \/ \E ok \in BOOLEAN : IconReturn(ok)
  \/ PropSkip
  \/ PropStart
  \/ \E i \in 1..MaxFiles, ok \in BOOLEAN : FileReturn(i, ok)
  \/ PropDone
  \/ BlocksCall
  \/ BlockPass
  \/ BlockStart
  \/ \E ok \in BOOLEAN : BlockReturn(ok)
  \/ BlockYield
  \/ BlocksFail
  \/ ProcessStart
  \/ \E ok \in BOOLEAN : ProcessSettle(ok)


\* ------------------------------------------------------- rehypeAssets
\* The transform of rehype-assets.ts:15-57 over the nodes of one document.
\* A string is the sequence of its characters.

\* The most nodes a document tree holds.
MaxNodes == 3

StartsWith(str, prefix) ==
  Len(str) >= Len(prefix) /\ SubSeq(str, 1, Len(prefix)) = prefix
DropFirst(str, n) == SubSeq(str, n + 1, Len(str))

\* decodeURI: an escape of a character that is not reserved is replaced by
\* the character, an escape of a reserved character is kept, and a
\* malformed escape throws a URIError.
Unescaped(hex) == IF hex = <<"2", "0">> THEN <<" ">> ELSE <<"%">> \o hex
HexDigits == {"0", "1", "2", "3", "4", "5", "6", "7", "8", "9",
              "a", "b", "c", "d", "e", "f", "A", "B", "C", "D", "E", "F"}
RECURSIVE DecodeURI(_)
DecodeURI(str) ==
  IF str = <<>> THEN [threw |-> FALSE, value |-> <<>>]
  ELSE IF Head(str) # "%"
    THEN LET rest == DecodeURI(Tail(str))
         IN [threw |-> rest.threw, value |-> <<Head(str)>> \o rest.value]
  ELSE IF Len(str) < 3 \/ str[2] \notin HexDigits \/ str[3] \notin HexDigits
    THEN [threw |-> TRUE, value |-> <<>>]
  ELSE LET rest == DecodeURI(DropFirst(str, 3))
       IN [threw |-> rest.threw,
           value |-> Unescaped(SubSeq(str, 2, 3)) \o rest.value]

\* rehype-assets.ts:8
ASTRO_IMAGE_FORMATS ==
  { <<"a", "v", "i", "f">>,
    <<"w", "e", "b", "p">>,
    <<"p", "n", "g">>,
    <<"j", "p", "g">>,
    <<"j", "p", "e", "g">>,
    <<"g", "i", "f">> }

\* String.prototype.toLowerCase over the letters of the paths
LowerOf(ch) ==
  CASE ch = "P" -> "p" [] ch = "N" -> "n" [] ch = "G" -> "g" [] OTHER -> ch
ToLowerCase(str) == [i \in 1..Len(str) |-> LowerOf(str[i])]

\* src.split('.').pop(): what follows the last dot, or the whole string
RECURSIVE LastPart(_)
LastPart(str) ==
  IF \A i \in 1..Len(str) : str[i] # "."
    THEN str
    ELSE LastPart(Tail(str))

\* rehype-assets.ts:10-13
IsAstroImageFormat(src) ==
  LET ext == LastPart(src)
  IN IF ext # <<>> THEN ToLowerCase(ext) \in ASTRO_IMAGE_FORMATS ELSE FALSE

\* What /^(..\/)+/ matches at the start of a string: as many groups of any
\* two characters and a slash as there are.
RECURSIVE UpMatch(_)
UpMatch(str) ==
  IF Len(str) >= 3 /\ str[3] = "/"
    THEN 3 + UpMatch(DropFirst(str, 3))
    ELSE 0

\* rehype-assets.ts:48-49, both tests being made on the decoded src
SiteAbsolute(src) ==
  LET up == IF StartsWith(src, <<".", ".", "/">>)
              THEN <<"/">> \o DropFirst(src, UpMatch(src))
              ELSE src
  IN IF StartsWith(src, <<"s", "r", "c", "/">>) THEN <<"/">> \o DropFirst(src, 4) ELSE up

\* rehype-assets.ts:53-54
HrefAbsolute(href) ==
  IF StartsWith(href, <<"s", "r", "c", "/">>) THEN <<"/">> \o DropFirst(href, 4) ELSE href

\* A property an element does not have.
Absent == <<"undefined">>
NoProps == [src |-> Absent, href |-> Absent, alt |-> Absent]
NoHint == [set |-> FALSE, props |-> NoProps, index |-> 0]

\* The strings of the modelled documents.
AltText == <<"l", "o", "g", "o">>
LinkTarget == <<"s", "r", "c", "/", "d">>
CachedPng == <<"s", "r", "c", "/", "a", "/", "b", ".", "p", "n", "g">>
EscapedPng == <<"a", "%", "2", "0", "b", ".", "P", "N", "G">>
SpacedPng == <<"a", " ", "b", ".", "P", "N", "G">>
UpwardPng == <<".", ".", "/", ".", ".", "/", "a", "/", "b", ".", "p", "n", "g">>
UpwardDirPng == <<".", ".", "/", "a", "b", "/", "c", ".", "p", "n", "g">>
CachedPdf == <<"s", "r", "c", "/", "x", "/", "y", ".", "p", "d", "f">>
MalformedSrc == <<"%", "z", "z", ".", "p", "n", "g">>
PlainTarget == <<"d", "o", "c">>

\* A node of the tree: an element with its tag name and properties (src,
\* href, alt and the hint __ASTRO_IMAGE_), or a text.
Element(tagName, src, href, alt) ==
  [type |-> "element", tagName |-> tagName,
   properties |-> [src |-> src, href |-> href, alt |-> alt],
   hint |-> NoHint]
TextNode == [type |-> "text", tagName |-> Undefined, properties |-> NoProps,
             hint |-> NoHint]

Nodes ==
  { TextNode,
    Element("img", CachedPng, Absent, AltText),
    Element("video", CachedPng, Absent, Absent),
    Element("img", EscapedPng, Absent, Absent),
    Element("img", SpacedPng, LinkTarget, Absent),
    Element("a", Absent, LinkTarget, Absent),
    Element("img", UpwardPng, Absent, Absent),
    Element("img", UpwardDirPng, Absent, Absent),
    Element("img", CachedPdf, Absent, Absent),
    Element("img", MalformedSrc, Absent, Absent),
    Element("img", <<>>, LinkTarget, Absent),
    Element("a", Absent, PlainTarget, Absent) }

RECURSIVE TreesOf(_)
TreesOf(n) ==
  IF n = 0 THEN {<<>>}
  ELSE LET shorter == TreesOf(n - 1)
       IN shorter \cup {Append(t, nd) : t \in {u \in shorter : Len(u) = n - 1},
                                        nd \in Nodes}
Trees == TreesOf(MaxNodes)

\* The option assetPaths: absent, or the paths of the cached assets.
NoPaths == [defined |-> FALSE, list |-> <<>>]
CachedPaths == [defined |-> TRUE, list |-> <<CachedPng, SpacedPng, CachedPdf>>]
Includes(list, str) == \E i \in 1..Len(list) : list[i] = str

\* The sources an occurrence is counted for.
Sources == {CachedPng, SpacedPng}

\* An occurrence index that does not count.
MutFirstOnly(occ, src) == 0

\* rehype-assets.ts:35: assetOccurrenceMap.get(src) || 0
OccurrenceIndex(occ, src) == occ[src]

\* rehype-assets.ts:31
IsAstroImage(node, src) ==
  /\ node.tagName = "img"
  /\ hintPaths.defined /\ Includes(hintPaths.list, src)
  /\ IsAstroImageFormat(src)

\* rehype-assets.ts:32-42: the properties are replaced by the hint, which
\* holds the properties with the decoded src and the occurrence index
Hinted(node, src, index) ==
  [node EXCEPT !.properties = NoProps,
               !.hint = [set |-> TRUE,
                         props |-> [node.properties EXCEPT !.src = src],
                         index |-> index]]

\* rehype-assets.ts:53-54 on a node whose src has been dealt with
WithHref(node) ==
  IF node.properties.href # Absent
    THEN [node EXCEPT !.properties.href = HrefAbsolute(@)]
    ELSE node

\* rehype-assets.ts:23: node.properties?.src is neither absent nor empty
HasSrc(node) == node.properties.src # Absent /\ node.properties.src # <<>>

RehypeInit ==
  /\ treeIn \in Trees
  /\ tree = treeIn
  /\ visitAt = 1
  /\ assetOccurrenceMap = [src \in Sources |-> 0]
  /\ hintPaths \in {NoPaths, CachedPaths}
  /\ hpc = "visiting"

RehypeAtRest ==
  /\ RehypeInit
  /\ treeIn = <<>>
  /\ hintPaths = NoPaths

Visiting == hpc = "visiting" /\ visitAt <= Len(tree)
Node == tree[visitAt]

\* rehype-assets.ts:21: a node that is not an element is passed over
VisitOther ==
  /\ Visiting /\ Node.type # "element"
  /\ visitAt' = visitAt + 1
  /\ UNCHANGED <<tree, treeIn, assetOccurrenceMap, hintPaths, hpc>>
  /\ UNCHANGED offRehype

\* rehype-assets.ts:23, 53-54: an element without src
VisitPlain ==
  /\ Visiting /\ Node.type = "element" /\ ~HasSrc(Node)
  /\ tree' = [tree EXCEPT ![visitAt] = WithHref(Node)]
  /\ visitAt' = visitAt + 1
  /\ UNCHANGED <<treeIn, assetOccurrenceMap, hintPaths, hpc>>
  /\ UNCHANGED offRehype

\* rehype-assets.ts:24: decodeURI throws, and the transform with it
VisitThrow ==
  /\ Visiting /\ Node.type = "element" /\ HasSrc(Node)
  /\ DecodeURI(Node.properties.src).threw
  /\ hpc' = "threw"
  /\ UNCHANGED <<tree, treeIn, visitAt, assetOccurrenceMap, hintPaths>>
  /\ UNCHANGED offRehype

\* rehype-assets.ts:31-45: an image of a cached asset is given the hint
VisitImage ==
  /\ Visiting /\ Node.type = "element" /\ HasSrc(Node)
  /\ ~DecodeURI(Node.properties.src).threw
  /\ LET src == DecodeURI(Node.properties.src).value
     IN /\ IsAstroImage(Node, src)
        /\ tree' = [tree EXCEPT ![visitAt] =
             Hinted(Node, src, OccurrenceIndex(assetOccurrenceMap, src))]
        /\ assetOccurrenceMap' = [assetOccurrenceMap EXCEPT ![src] = @ + 1]
  /\ visitAt' = visitAt + 1
  /\ UNCHANGED <<treeIn, hintPaths, hpc>>
  /\ UNCHANGED offRehype

\* rehype-assets.ts:24-25, 47-54: any other element with a src
VisitSrc ==
  /\ Visiting /\ Node.type = "element" /\ HasSrc(Node)
  /\ ~DecodeURI(Node.properties.src).threw
  /\ LET src == DecodeURI(Node.properties.src).value
     IN /\ ~IsAstroImage(Node, src)
        /\ tree' = [tree EXCEPT ![visitAt] =
             WithHref([Node EXCEPT !.properties.src = SiteAbsolute(src)])]
  /\ visitAt' = visitAt + 1
  /\ UNCHANGED <<treeIn, assetOccurrenceMap, hintPaths, hpc>>
  /\ UNCHANGED offRehype

\* visit has come to the end of the tree
VisitEnd ==
  /\ hpc = "visiting" /\ visitAt > Len(tree)
  /\ hpc' = "done"
  /\ UNCHANGED <<tree, treeIn, visitAt, assetOccurrenceMap, hintPaths>>
  /\ UNCHANGED offRehype

RehypeSpecNext ==
  \/ VisitOther
  \/ VisitPlain
  \/ VisitThrow
  \/ VisitImage
  \/ VisitSrc
  \/ VisitEnd

\* ------------------------------------------------------- specifications
\* Each specification runs one component and holds the others at rest.
AssetAtRest ==
  /\ rootExists = TRUE
  /\ dirs = {}
  /\ files = [f \in LocalPaths |-> "absent"]
  /\ call = [p \in Procs |-> IdleCall]

SyncAtRest ==
  /\ SyncInit
  /\ force = FALSE

TreeAtRest ==
  /\ TreeInit
  /\ isFull = [b \in BlockIds |-> TRUE]

Init == SyncInit /\ AssetAtRest /\ FetchInit /\ ProcInit /\ TreeAtRest /\ RenderAtRest /\ RehypeAtRest

Spec == Init /\ [][Next]_vars

AssetSpecInit ==
  SyncAtRest /\ AssetInit /\ FetchInit /\ ProcInit /\ TreeAtRest /\ RenderAtRest /\ RehypeAtRest

AssetSpec == AssetSpecInit /\ [][AssetSpecNext]_vars

FetchSpecInit ==
  SyncAtRest /\ AssetInit /\ FetchInit /\ ProcInit /\ TreeAtRest /\ RenderAtRest /\ RehypeAtRest

FetchSpec == FetchSpecInit /\ [][FetchSpecNext]_vars

\* The processor is built once, for any configured list of plugins.
ProcSpecInit ==
  /\ SyncAtRest /\ AssetAtRest /\ FetchInit /\ TreeAtRest /\ RenderAtRest /\ RehypeAtRest
  /\ doc = [id \in Ids |-> IdleDoc]
  /\ headings = <<>>
  /\ rehypePlugins \in PluginLists

ProcSpec == ProcSpecInit /\ [][ProcSpecNext]_vars

TreeSpecInit ==
  SyncAtRest /\ AssetAtRest /\ FetchInit /\ ProcInit /\ TreeInit /\ RenderAtRest /\ RehypeAtRest

TreeSpec == TreeSpecInit /\ [][TreeSpecNext]_vars

RenderSpecInit ==
  SyncAtRest /\ AssetAtRest /\ FetchInit /\ ProcInit /\ TreeAtRest /\ RenderInit /\ RehypeAtRest

RenderSpec == RenderSpecInit /\ [][RenderSpecNext]_vars

RehypeSpecInit ==
  /\ SyncAtRest /\ AssetAtRest /\ FetchInit /\ ProcInit /\ TreeAtRest
  /\ RenderAtRest /\ RehypeInit

RehypeSpec == RehypeSpecInit /\ [][RehypeSpecNext]_vars

\* ---------------------------------------------------------------- claims
\* A render task whose render raised and resolved with {}.
RenderFailed(id) ==
  task[id].st \notin {"none", "rendering"} /\ task[id].result = EmptyResult

\* A render task whose render resolved with data and rendered output.
RenderSucceeded(id) ==
  task[id].st \notin {"none", "rendering"} /\ task[id].result # EmptyResult

\* A render task that has settled, fulfilled or rejected.
Settled(id) == task[id].st \in {"stored", "empty", "rejected"}

\* The enumeration of this pass has completed (the deletion loop has run).
EnumCompleted == pc \in {"join", "returned", "failedJoin"}

\* This pass has made no store.set, no store.delete, and scheduled no render.
NoWritesNoRenders == Renderers = {} /\ deleted = {} /\ store = startStore

C6_Original == pc # "failedJoin"

\* C7 as stated: when load has returned, normally or with an error, every
\* render task it scheduled has settled.
C7_Original == (pc \in {"returned", "failedEnum", "failedJoin"}) => Quiescent

\* C8: with FORCE_RERENDER set, every full page the enumeration yields gets
\* a render task, also when its stored digest equals its fingerprint.
C8_ForcedRerender ==
  force => \A id \in seen : remote[id].kind = "full" => task[id].st # "none"

\* With the override set, a pass has re-rendered and stored a page whose
\* stored digest was its fingerprint.
C8_Witness ==
  /\ force /\ pc = "returned"
  /\ \E id \in seen :
       /\ remote[id].kind = "full"
       /\ startStore[id].digest = remote[id].last_edited_time
       /\ task[id].st = "stored"

\* A call of downloadFile that got as far as the cache lookup of asset.ts:65.
ReachedLookup(p) == call[p].file # NoFile

\* The call has ended, by return or by throw.
Ended(p) == call[p].pc \in {"returned", "threw"}

\* The lookup of the call was a hit: the file existed and the override was unset.
WasHit(p) == call[p].existed /\ ~call[p].ignoreCache

\* C9 as stated: when a resolution starts after another one has returned,
\* their URLs have the same path segments and differ only in the query
\* string, and the override is unset, the two derive the same local path
\* and the later one is reported as a cache hit.
C9_Original ==
  \A p \in Procs : \A q \in call[p].after :
    (/\ call[p].pc = "returned" /\ call[q].pc = "returned"
     /\ call[p].url.path = call[q].url.path
     /\ call[p].url.query # call[q].url.query
     /\ ~call[p].ignoreCache)
    => (call[p].file = call[q].file /\ call[p].tag = "cached")

\* C10 as stated: a call that has ended after a hit has fetched nothing,
\* started no write and reported 'cached'; a call that has ended after a miss
\* has fetched once and reported 'download'.
C10_Original ==
  \A p \in Procs :
    (ReachedLookup(p) /\ Ended(p)) =>
      IF WasHit(p)
        THEN call[p].fetches = 0 /\ call[p].wr = "none" /\ call[p].tag = "cached"
        ELSE call[p].fetches = 1 /\ call[p].tag = "download"

\* C10 amended: after a hit the call returns at once, having fetched
\* nothing, started no write and reported 'cached'; after a miss it fetches
\* exactly once, and reports 'download' and starts the write when the fetch
\* succeeds; when the fetch fails it throws, starts no write and reports
\* neither.
C10_CachePolicy ==
  \A p \in Procs :
    ReachedLookup(p) =>
      IF WasHit(p)
        THEN /\ call[p].pc = "returned"
             /\ call[p].fetches = 0 /\ call[p].wr = "none" /\ call[p].tag = "cached"
        ELSE /\ call[p].fetches = 1
             /\ call[p].pc = "fetching" => (call[p].tag = "none" /\ call[p].wr = "none")
             /\ call[p].pc = "returned" => (call[p].tag = "download" /\ call[p].wr # "none")
             /\ call[p].pc = "threw" =>
                  (/\ call[p].tag = "none" /\ call[p].wr = "none"
                   /\ call[p].error = "fetch failed")

\* One call has returned a hit on a complete file while another, with the
\* override set on an existing file, has returned a download.
C10_Witness ==
  \E p, q \in Procs :
    /\ p # q
    /\ call[p].pc = "returned" /\ WasHit(p) /\ files[call[p].file] = "complete"
    /\ call[q].pc = "returned" /\ call[q].ignoreCache /\ call[q].existed
    /\ call[q].tag = "download"

\* C11 as stated: when downloadFile has returned after a miss, the file at
\* the path it returned is completely written.
C11_Original ==
  \A p \in Procs :
    (call[p].pc = "returned" /\ call[p].tag = "download")
    => files[call[p].file] = "complete"

\* C12 as stated: no resolution reports a cache hit on a file whose write
\* has not completed.
C12_Original ==
  \A p \in Procs : call[p].tag = "cached" => call[p].found = "complete"

\* C13 as stated: the derived local path is the second-to-last segment and
\* the last segment of the URL path, however many segments precede them.
C13_Original ==
  \A p \in Procs :
    ReachedLookup(p) =>
      LET s == Segments(call[p].url)
      IN call[p].file = <<s[Len(s) - 1], s[Len(s)]>>

\* C13 amended: the derived local path is the second and the third
\* non-empty segment of the URL path, whatever follows them; they are the
\* second-to-last and the last segment when the path has exactly three.
C13_PathDerivation ==
  \A p \in Procs :
    ReachedLookup(p) =>
      LET s == Segments(call[p].url)
      IN /\ Len(s) >= 3
         /\ call[p].file = <<s[2], s[3]>>
         /\ Len(s) = 3 => call[p].file = <<s[Len(s) - 1], s[Len(s)]>>

\* A call with a URL of four segments has derived its path from the second
\* and the third, and a call with three segments from its last two.
C13_Witness ==
  \E p, q \in Procs :
    /\ ReachedLookup(p) /\ Len(Segments(call[p].url)) = 4
    /\ call[p].file = <<"p", "o1">>
    /\ ReachedLookup(q) /\ Len(Segments(call[q].url)) = 3
    /\ call[q].file = <<"o1", "a.png">>

\* A call that failed on a precondition has fetched nothing, reported
\* nothing, started no write and derived no path.
NoEffect(p) ==
  /\ call[p].fetches = 0 /\ call[p].tag = "none" /\ call[p].wr = "none"
  /\ call[p].file = NoFile

\* C14 as stated: with the root present, a call fails with the invalid-URL
\* error exactly when the path has no parent identifier and file name, that
\* is fewer than two segments.
C14_Original ==
  \A p \in Procs :
    (call[p].pc # "idle" /\ rootExists) =>
      (call[p].error = "invalid url" <=> Len(Segments(call[p].url)) < 2)

\* C14 amended: a call fails with an error when the destination root does
\* not exist, and with the invalid-URL error exactly when the root exists
\* and the URL path has fewer than three non-empty segments (parent
\* identifier, object identifier, file name); in both cases it has fetched
\* nothing, created no directory or file, and reported neither hit nor
\* download.
C14_Preconditions ==
  \A p \in Procs :
    call[p].pc # "idle" =>
      /\ ~rootExists =>
           /\ call[p].pc = "threw" /\ call[p].error = "no directory"
           /\ NoEffect(p)
           /\ dirs = {} /\ \A f \in LocalPaths : files[f] = "absent"
      /\ rootExists =>
           /\ call[p].error # "no directory"
           /\ call[p].error = "invalid url" <=> Len(Segments(call[p].url)) < 3
           /\ call[p].error = "invalid url" =>
                /\ call[p].pc = "threw" /\ NoEffect(p)
                /\ Destructure(Segments(call[p].url)).objId \notin dirs

\* A call has failed on a URL of two segments while the other call, on a
\* valid URL, created its subdirectory.
C14_Witness ==
  \E p, q \in Procs :
    /\ call[p].error = "invalid url" /\ Len(Segments(call[p].url)) = 2
    /\ ReachedLookup(q) /\ call[q].file[1] \in dirs

\* C19 as stated: store.delete is called only for identifiers that the
\* enumeration of the pass did not yield, so a stored page that is yielded
\* as a partial record keeps its entry.
C19_Original ==
  /\ \A id \in deleted : id \notin seen
  /\ \A id \in seen :
       (remote[id].kind = "partial" /\ EnumCompleted) => store[id] = startStore[id]

\* The step is a call of #fetchAsset by resolution p.
FetchAssetCalled(p) == fa[p].pc = "idle" /\ fa'[p].pc # "idle"

\* C15: for a null asset reference and for one whose kind is not 'file',
\* #fetchAsset returns the reference it was given without calling
\* downloadFile, and its call changes nothing of the filesystem, of the
\* downloads, of the renderer's asset path list or of its two counters.
C15_PassThrough ==
  /\ [](\A p \in Procs :
          (fa[p].pc = "returned" /\ fa[p].ref.type # "file")
          => (fa[p].out = fa[p].ref /\ call[p] = IdleCall))
  /\ [][\A p \in Procs :
          (FetchAssetCalled(p) /\ fa'[p].ref.type # "file")
          => (/\ fa'[p].pc = "returned"
              /\ UNCHANGED <<rootExists, dirs, files, call, assetPaths, assetAnalytics>>)]_vars

\* An external reference and a null reference have been returned as they
\* were, while the destination root does not exist and nothing was counted.
C15_Witness ==
  /\ ~rootExists
  /\ \E p, q \in Procs :
       /\ fa[p].pc = "returned" /\ fa[p].ref.type = "external"
       /\ fa[p].ref.url # NoUrl /\ fa[p].out = fa[p].ref
       /\ fa[q].pc = "returned" /\ fa[q].ref = NullRef /\ fa[q].out = NullRef
       /\ fa[p].owner = fa[q].owner
       /\ assetPaths[fa[p].owner] = <<>>
       /\ assetAnalytics[fa[p].owner] = NoAnalytics

\* The resolution of a file reference by p has failed: the download or the
\* path derivation threw, or the write of the downloaded bytes failed.
ResolutionFailed(p) ==
  /\ fa[p].pc = "returned" /\ fa[p].ref.type = "file"
  /\ call[p].pc = "threw" \/ call[p].wr = "failed"

\* C16 as stated: when the resolution of one asset fails, #fetchAsset
\* returns the original remote reference (and the caller goes on).
C16_Original ==
  \A p \in Procs : ResolutionFailed(p) => fa[p].out = fa[p].ref

\* C18 as stated: the headings process returns for a document are the
\* headings extracted from that document's own TOC, in every interleaving of
\* the render tasks that share the processor.
C18_Original ==
  \A id \in Ids :
    doc[id].pc = "returned" => doc[id].out = ExtractTocHeadings(doc[id].toc).value

\* The full child records of a block, in the order of the remote list.
FullChildren(b) == SelectSeq(ChildrenOf(b), LAMBDA c : isFull[c])

\* The whole subtree of b has been fetched and attached.
RECURSIVE Complete(_)
Complete(b) ==
  HasChildren(b) =>
    /\ b \in attached
    /\ kids[b] = FullChildren(b)
    /\ \A i \in 1..Len(kids[b]) : Complete(kids[b][i])

\* b is a partial record or lies below one.
RECURSIVE Skipped(_)
Skipped(b) == b # Root /\ (~isFull[b] \/ Skipped(ParentOf(b)))

Yielded == {yieldLog[i] : i \in 1..Len(yieldLog)}

IsPrefix(s, t) == Len(s) <= Len(t) /\ s = SubSeq(t, 1, Len(s))

\* C20: fetchBlocks yields a full block only after its whole subtree has
\* been fetched and attached as its children; the blocks collected for one
\* parent are its full child records, each once, in the order of the remote
\* list; a partial child record is never yielded and its subtree is never
\* requested.
C20_ChildrenFirst ==
  /\ \A i \in 1..Len(yieldLog) : Complete(yieldLog[i])
  /\ \A i, j \in 1..Len(yieldLog) : yieldLog[i] = yieldLog[j] => i = j
  /\ \A b \in attached : kids[b] = FullChildren(b)
  /\ \A i \in 1..Len(stack) : IsPrefix(stack[i].acc, FullChildren(stack[i].parent))
  /\ tpc = "done" => blocks = FullChildren(Root)
  /\ \A b \in BlockIds :
       Skipped(b) => (b \notin Yielded /\ b \notin listed /\ b \notin attached)

\* The fetch of a page has returned whose second block and whose block b4,
\* a block with a child, are partial records: b5 was yielded before its
\* parent b1, and the child of b4 was never requested.
C20_Witness ==
  /\ tpc = "done"
  /\ isFull = [b \in BlockIds |-> b \notin {"b2", "b4"}]
  /\ yieldLog = <<"b5", "b1", "b3">>
  /\ blocks = <<"b1", "b3">>
  /\ kids["b1"] = <<"b5">>
  /\ "b4" \notin listed

\* C28: when the remote enumeration fails before it completes, the pass
\* fails and store.delete has been called for no identifier in it: every
\* entry the store held when the pass started is still held.
C28_NoDeleteOnFailure ==
  pc = "failedEnum" =>
    /\ deleted = {}
    /\ \A id \in Ids : startStore[id] # NoEntry => store[id] # NoEntry

\* The enumeration has failed after it yielded one page, while the entry of
\* a page it had not yet yielded is still in cachedPageIds and in the store.
C28_Witness ==
  /\ pc = "failedEnum"
  /\ seen # {}
  /\ \E id \in cachedPageIds : id \notin seen /\ store[id] # NoEntry

\* The resolutions of renderer o that downloadFile has counted and whose
\* #fetchAsset has not yet resumed to push the path.
PendingPush(o) ==
  Cardinality({p \in Procs :
    fa[p].owner = o /\ fa[p].pc = "awaiting" /\ call[p].pc = "returned"})

CountedAssets(o) == assetAnalytics[o].download + assetAnalytics[o].cached

\* The step is taken by a resolution of renderer o.
StepOf(o) ==
  \E p \in Procs :
    /\ fa[p].owner = o \/ fa'[p].owner = o
    /\ fa'[p] # fa[p] \/ call'[p] # call[p]

\* C27 as stated: at every point of a render the length of the renderer's
\* asset path list equals its download counter plus its cached counter.
C27_Original ==
  \A o \in Ids : Len(assetPaths[o]) = CountedAssets(o)

\* C27 amended: the length of a renderer's asset path list plus the number
\* of its resolutions that have been counted and not yet pushed equals its
\* download counter plus its cached counter, so the two agree whenever no
\* resolution of the renderer is between the count and the push; and the
\* list and the counters of a renderer change only in a step of one of its
\* own resolutions, or when a new renderer replaces it.
C27_Accounting ==
  /\ [](\A o \in Ids : Len(assetPaths[o]) + PendingPush(o) = CountedAssets(o))
  /\ [][\A o \in Ids :
          (assetPaths'[o] # assetPaths[o] \/ assetAnalytics'[o] # assetAnalytics[o])
          => (StepOf(o) \/ (assetPaths'[o] = <<>> /\ assetAnalytics'[o] = NoAnalytics))]_vars

\* A renderer has one downloaded and one cached asset in its list and a
\* failed resolution behind it, while the other renderer has counted
\* nothing.
C27_Witness ==
  \E o \in Ids, p \in Procs :
    /\ Len(assetPaths[o]) = 2
    /\ assetAnalytics[o] = [download |-> 1, cached |-> 1]
    /\ fa[p].owner = o /\ fa[p].pc = "returned" /\ call[p].pc = "threw"
    /\ \E o2 \in Ids \ {o} : assetPaths[o2] = <<>> /\ assetAnalytics[o2] = NoAnalytics

\* The positions of the list items of a TOC, as index paths from the
\* top-level list down.
RECURSIVE TocPaths(_)
TocPaths(ol) ==
  UNION { {<<i>>} \cup {<<i>> \o q : q \in TocPaths(ol[i].sub)} : i \in 1..Len(ol) }

\* The list item at a position.
RECURSIVE ItemAt(_, _)
ItemAt(ol, path) ==
  IF Len(path) = 1 THEN ol[path[1]] ELSE ItemAt(ol[path[1]].sub, Tail(path))

\* Position p comes before position q in document order (pre-order): p is
\* above q, or p branches off to the left of q.
Before(p, q) ==
  /\ p # q
  /\ LET n == IF Len(p) < Len(q) THEN Len(p) ELSE Len(q)
         diff == {k \in 1..n : p[k] # q[k]}
     IN IF diff = {} THEN Len(p) < Len(q)
        ELSE LET k == CHOOSE m \in diff : \A l \in diff : m <= l
             IN p[k] < q[k]

\* hs is the outline of the list ol: one entry per list item, the entry of
\* an item at the place of the item in document order, with the depth of
\* its list, its text and its slug.
IsOutlineOf(hs, ol) ==
  LET ps == TocPaths(ol)
  IN /\ Len(hs) = Cardinality(ps)
     /\ \A path \in ps :
          LET k == 1 + Cardinality({q \in ps : Before(q, path)})
              li == ItemAt(ol, path)
          IN hs[k] = [depth |-> Len(path) - 1, text |-> li.link.value,
                      slug |-> Tail(li.link.href)]

\* The processor has run customizeTOC for the document of page id.
RanToc(id) == doc[id].pc \in {"processed", "returned"}

\* C24: for a nav root, the outline customizeTOC assigns has one entry per
\* list item, in pre-order, with depth 0 for the top-level list and d+1 for
\* a sub list of an item of depth d, and customizeTOC returns false (the TOC
\* is not to be inserted); for any other root extractTocHeadings raises and
\* the run of the document fails.
C24_TocFlattening ==
  /\ \A toc \in Tocs :
       LET r == ExtractTocHeadings(toc)
       IN IF toc.tagName = "nav"
            THEN ~r.threw /\ IsOutlineOf(r.value, toc.ol)
            ELSE r.threw
  /\ \A id \in Ids :
       /\ RanToc(id) =>
            /\ doc[id].toc.tagName = "nav"
            /\ doc[id].tocReturned = "false"
       /\ (doc[id].pc \notin {"idle", "building"} /\ doc[id].toc.tagName # "nav")
            => doc[id].pc = "threw"

\* The three-level TOC has been flattened into the shared variable, five
\* entries of depths 0, 1, 2, 1, 0, while the run over a document whose TOC
\* root is a div has failed.
C24_Witness ==
  \E id, id2 \in Ids :
    /\ doc[id].pc = "processed"
    /\ Len(headings) = 5
    /\ [i \in 1..5 |-> headings[i].depth] = <<0, 1, 2, 1, 0>>
    /\ [i \in 1..5 |-> headings[i].text] = <<"a", "b", "c", "d", "e">>
    /\ IsOutlineOf(headings, doc[id].toc.ol)
    /\ doc[id2].pc = "threw" /\ doc[id2].toc.tagName = "div"

\* The plugins of the mandatory stages, in the order of render.ts:25-41.
MandatoryPlugins ==
  <<"notionRehype", "rehypeSlug", "rehypeKatex", "rehypeStringify", "rehypeToc">>

WithReceivedAsset(b) ==
  [yielded[b] EXCEPT !.payload.asset = Received(b).payload.asset]

\* C21 as stated: a block of another kind than the five asset-bearing ones
\* is yielded as it was fetched, and an asset-bearing block is yielded with
\* every field other than the asset reference as it was fetched.
C21_Original ==
  \A b \in Yielded :
    IF BlockType(b) \in AssetKinds
      THEN WithReceivedAsset(b) = Received(b)
      ELSE yielded[b] = Received(b)

\* C21 amended: the yielded block has the identifier, type, has_children
\* and payload text of the fetched block; the asset reference of a block of
\* another kind than the five asset-bearing ones is the fetched one, and
\* that of an asset-bearing block is the fetched one or the fetched one with
\* a local path in place of its URL; the only other change is that a block
\* with children carries the array of its fetched children under its
\* payload, and a block without children carries none.
C21_Frame ==
  \A b \in Yielded :
    LET f == Received(b)
        y == yielded[b]
    IN /\ y.id = f.id /\ y.type = f.type /\ y.has_children = f.has_children
       /\ y.payload.text = f.payload.text
       /\ BlockType(b) \notin AssetKinds => y.payload.asset = f.payload.asset
       /\ [y.payload.asset EXCEPT !.local = NoFile, !.resolved = FALSE] = f.payload.asset
       /\ y.payload.children =
            IF HasChildren(b) THEN [set |-> TRUE, list |-> FullChildren(b)]
            ELSE f.payload.children

\* The fetch of a page of six full blocks has returned: the toggle and the
\* callout carry their children, the image was given a local path, the
\* file kept its remote reference after a failed download, and the
\* paragraph is as it was fetched.
C21_Witness ==
  /\ tpc = "done"
  /\ \A b \in BlockIds : isFull[b]
  /\ yielded["b1"].payload.children = [set |-> TRUE, list |-> <<"b4", "b5">>]
  /\ yielded["b4"].payload.children = [set |-> TRUE, list |-> <<"b6">>]
  /\ yielded["b4"].payload.asset.local # NoFile
  /\ yielded["b2"].payload.asset.local # NoFile /\ ~yielded["b2"].payload.asset.resolved
  /\ yielded["b6"].payload.asset = Received("b6").payload.asset
  /\ yielded["b3"] = Received("b3")
  /\ yielded["b5"] = Received("b5")

\* The calls of #fetchAsset that have returned.
ReturnedSlots == {rReturned[i] : i \in 1..Len(rReturned)}

\* The fetch of the block tree has started.
TreeStarted == rStage \in {"blocks", "asset", "process", "rendered"}

\* process has been called.
ChainStarted == rStage \in {"process", "rendered"}

\* C22: within one call of render, the fetch of the block tree has not
\* started while a resolution of the cover, the icon or a file of a files
\* property has not returned; process has not been called while a block is
\* still to be yielded or the resolution of a block asset has not returned;
\* and the list process is called with is #assetPaths with one path for
\* every resolution that downloaded its file, which no later push changes.
C22_StageOrder ==
  /\ TreeStarted => DocSlots \subseteq ReturnedSlots /\ rPending \cap DocSlots = {}
  /\ ChainStarted =>
       /\ rBlock > Len(rPage.blocks)
       /\ BlockSlots \subseteq ReturnedSlots
       /\ rPending = {}
       /\ rPassed = rPaths
       /\ Len(rPassed) = Cardinality(rSaved)
       /\ \A slot \in rSaved :
            \E i \in 1..Len(rPassed) : rPassed[i] = FilePath(RefOf(slot).url)

\* A page with a hosted cover and icon, two files properties and blocks was
\* rendered: the files of the first property returned in the reverse order,
\* one resolution failed, and process was called with the four paths the
\* others pushed.
C22_Witness ==
  /\ rStage = "rendered"
  /\ rPage.cover = HostedRef /\ rPage.icon = HostedRef
  /\ Len(rPage.properties) = 3 /\ Len(rPage.blocks) = 3
  /\ \E i, j \in 1..Len(rReturned) :
       i < j /\ rReturned[i] = FileSlot(1, 2) /\ rReturned[j] = FileSlot(1, 1)
  /\ FileSlot(3, 1) \in ReturnedSlots \ rSaved
  /\ BlockSlot(2) \in rSaved
  /\ Len(rPassed) = 4

\* The nodes visit has dealt with, and the decoded src of one of them.
Visited == 1..(visitAt - 1)
SrcElement(i) == treeIn[i].type = "element" /\ HasSrc(treeIn[i])
DecodedSrc(i) == DecodeURI(treeIn[i].properties.src).value

\* The decoded src of node i is in the asset path list and has a
\* recognized raster-image extension.
CachedRaster(i) ==
  /\ SrcElement(i)
  /\ hintPaths.defined /\ Includes(hintPaths.list, DecodedSrc(i))
  /\ IsAstroImageFormat(DecodedSrc(i))

\* Node i has no attribute but the hint, with the given occurrence index.
HintOnly(i, index) ==
  /\ tree[i].properties = NoProps
  /\ tree[i].hint.set
  /\ tree[i].hint.index = index

\* C25 as stated: every element whose decoded src is in the asset path list
\* and has a recognized raster-image extension is left with the hint
\* alone, its index the number of earlier elements with the same source
\* path; an element with only a link target never has the hint.
C25_Original ==
  \A i \in Visited :
    /\ CachedRaster(i) =>
         HintOnly(i, Cardinality({j \in 1..(i - 1) :
                     SrcElement(j) /\ DecodedSrc(j) = DecodedSrc(i)}))
    /\ treeIn[i].type = "element" /\ treeIn[i].properties.src = Absent
         => ~tree[i].hint.set

\* C25 amended: an img element whose decoded src is in the asset path list
\* and has a recognized raster-image extension is left with the hint
\* alone, which holds its attributes with the decoded src and the number
\* of earlier img elements with the same decoded src; no other node has
\* the hint.
C25_ImageHint ==
  \A i \in Visited :
    IF CachedRaster(i) /\ treeIn[i].tagName = "img"
      THEN /\ HintOnly(i, Cardinality({j \in 1..(i - 1) :
                          /\ SrcElement(j) /\ treeIn[j].tagName = "img"
                          /\ DecodedSrc(j) = DecodedSrc(i)}))
           /\ tree[i].hint.props =
                [treeIn[i].properties EXCEPT !.src = DecodedSrc(i)]
      ELSE ~tree[i].hint.set

\* The transform has gone over an image, a video and an image of the same
\* cached asset: the images have the hint with the indices 0 and 1, the
\* video keeps its src rewritten.
C25_Witness ==
  /\ hpc = "done"
  /\ hintPaths = CachedPaths
  /\ treeIn = <<Element("img", CachedPng, Absent, AltText),
                Element("video", CachedPng, Absent, Absent),
                Element("img", CachedPng, Absent, AltText)>>
  /\ HintOnly(1, 0) /\ HintOnly(3, 1)
  /\ ~tree[2].hint.set /\ tree[2].properties.src = SiteAbsolute(CachedPng)

\* The path without its leading '../' segments.
RECURSIVE AfterUpward(_)
AfterUpward(str) ==
  IF StartsWith(str, <<".", ".", "/">>) THEN AfterUpward(DropFirst(str, 3)) ELSE str

\* The rewrite that removes nothing but the leading '../' segments or the
\* leading 'src/'.
PreservingRewrite(src) ==
  IF StartsWith(src, <<".", ".", "/">>) THEN <<"/">> \o AfterUpward(src)
  ELSE IF StartsWith(src, <<"s", "r", "c", "/">>) THEN <<"/">> \o DropFirst(src, 4)
  ELSE src

\* C26 as stated: the src of an element that is not given the hint is the
\* decoded src with its leading '../' segments, or its leading 'src/',
\* replaced by '/', and is the decoded src otherwise.
C26_Original ==
  \A i \in Visited :
    SrcElement(i) /\ ~tree[i].hint.set
      => tree[i].properties.src = PreservingRewrite(DecodedSrc(i))
====
